---- MODULE Spec2Model ----
(***************************************************************************)
(* A model of pisense's SenseStick (src/pisense/stick.py): the reader      *)
(* thread draining the joystick device into a bounded Queue, the callback  *)
(* dispatch thread started and stopped by the when_* setters, and the      *)
(* public API (read, when_*, close) called from concurrent caller threads. *)
(* Every thread is a program counter; a step is one access to shared state *)
(* (the Queue, the two Events, the lock, the registry, the thread handles).*)
(***************************************************************************)
EXTENDS Integers, Sequences, FiniteSets, TLC

(* ---- bounds of the model ---- *)
\* records the device delivers in one run
MaxRecords == 3
\* dispatch threads created in one run
MaxThreads == 2
\* largest max_events the constructor is given
MaxCapacity == 2
\* calls of the public API (when_* assignments, read, close) in one run
MaxCalls == 3

(* ---- program constants (class attributes of SenseStick) ---- *)
EV_KEY == 1
STATE_RELEASE == 0
STATE_PRESS == 1
STATE_HOLD == 2
KEY_UP == 103
KEY_LEFT == 105
KEY_RIGHT == 106
KEY_DOWN == 108
KEY_ENTER == 28

None == "None"
\* the local name cb of _run_callbacks before its first assignment
Unbound == "Unbound"

Directions == {"up", "down", "left", "right", "enter"}
\* the callables a caller assigns to a when_* property
Handlers == {"f"}
\* a handler that re-enters the API: its body is  stick.when_up = None
ReentrantHandlers == {"g"}
\* the when_* properties the callers of the model assign
SetterDirections == {"up", "down"}
\* the threads that call the public API
Callers == {"c1", "c2"}
\* the caller of the specification with one caller
MainCaller == "c1"
Threads == 1..MaxThreads

(* ---- the dict literals of _read_stick ---- *)
\* mutant: the labels of KEY_LEFT and KEY_RIGHT exchanged
DirectionTable_Swapped ==
    (KEY_UP :> "up") @@ (KEY_DOWN :> "down") @@ (KEY_LEFT :> "right")
    @@ (KEY_RIGHT :> "left") @@ (KEY_ENTER :> "enter")

DirectionTable ==
    (KEY_UP :> "up") @@ (KEY_DOWN :> "down") @@ (KEY_LEFT :> "left")
    @@ (KEY_RIGHT :> "right") @@ (KEY_ENTER :> "enter")

ActionTable ==
    (STATE_PRESS :> "pressed") @@ (STATE_RELEASE :> "released")
    @@ (STATE_HOLD :> "held")

\* a dict lookup that does not raise KeyError
Mapped(rec) == rec.code \in DOMAIN DirectionTable /\ rec.value \in DOMAIN ActionTable

\* InputEvent(timestamp=tv_sec + tv_usec / 1000000, direction=..., action=...)
\* the model's device stamps its records with whole seconds (tv_usec = 0)
MakeEvent(rec) ==
    [timestamp |-> rec.tv_sec,
     direction |-> DirectionTable[rec.code],
     action    |-> ActionTable[rec.value]]

\* the raw records the model's device delivers (type, code, value)
DeviceRecords ==
    { [type |-> EV_KEY, code |-> KEY_UP,   value |-> STATE_PRESS],
      [type |-> EV_KEY, code |-> KEY_LEFT, value |-> STATE_RELEASE],
      [type |-> 0,      code |-> 0,        value |-> 0],
      [type |-> EV_KEY, code |-> 1,        value |-> STATE_PRESS] }

\* every key record the dict literals map, and records of other types
\* (EV_SYN = 0, EV_REL = 2) carrying the same codes and values
AllRecords ==
    [type : {0, EV_KEY, 2},
     code : {KEY_UP, KEY_LEFT, KEY_RIGHT, KEY_DOWN, KEY_ENTER},
     value : {STATE_RELEASE, STATE_PRESS, STATE_HOLD}]

(* ---- queue.Queue(maxsize) as SenseStick uses it ---- *)
\* mutant: an off-by-one in the capacity test
Full_OffByOne(q, maxsize) == maxsize > 0 /\ Len(q) > maxsize
\* Queue.full(): 0 < maxsize <= qsize
Full(q, maxsize) == maxsize > 0 /\ Len(q) >= maxsize
\* Queue.get() returns once the queue is non-empty
CanGet(q) == Len(q) > 0
\* Queue.put() returns once the queue is not full
CanPut(q, maxsize) == ~Full(q, maxsize)
\* the item get() returns, and the queue it leaves
QueueFront(q) == Head(q)
\* mutant: the queue drops its newest item and keeps the oldest
QueueGet_Newest(q) == SubSeq(q, 1, Len(q) - 1)
QueueGet(q) == Tail(q)
\* mutant: a LIFO put
QueuePut_Front(q, e) == <<e>> \o q
QueuePut(q, e) == Append(q, e)

VARIABLES
    max_events,        \* the constructor's argument
    device,            \* the raw records the opened device file may deliver
    rotate,            \* self._rotate (<<>>: the attribute is not set)
    rotate_arg,        \* history: the value last assigned to rotate
    buffer,            \* self._buffer
    closing,           \* self._closing
    callbacks_close,   \* self._callbacks_close
    callbacks,         \* self._callbacks (None: the key is absent)
    callbacks_thread,  \* self._callbacks_thread (0: None)
    callbacks_lock,    \* self._callbacks_lock: None or the caller holding it
    read_thread,       \* self._read_thread is not None
    rpc,               \* the reader thread's position in _read_stick
    rrec,              \* the record the reader has unpacked
    nrec,              \* records read from the device so far
    stick_closed,      \* calls of stick_file.close()
    dpc,               \* each dispatch thread's position in _run_callbacks
    devent,            \* its local event
    dcb,               \* its local cb
    dmiss,             \* whether its last lookup raised KeyError
    derr,              \* the exception that ended it
    cpc,               \* each caller's position in the API call it makes
    ctarget,           \* the thread object a caller's join() waits for
    ctimeout,          \* read()'s timeout argument: None or "finite"
    cresult,           \* what the caller's last read() returned (NoEvent: None)
    cwarned,           \* whether that read() emitted SenseStickCallbackRead
    cerr,              \* the exception the caller's last call raised
    cdone,             \* the last call the caller returned from
    ncalls,            \* API calls begun so far
    parsed,            \* history: the events the reader has put, in order
    consumed,          \* history: the events popped by consumers, in order
    advisories,        \* history: SenseStickBufferFull warnings emitted
    evictions,         \* history: events the reader removed for overflow
    calls              \* history: the handler invocations, in order

\* what no thread's step changes: only the rotate setter writes among these
objvars == <<max_events, device, rotate, rotate_arg>>
qvars == <<objvars, buffer>>
flagvars == <<closing, callbacks_close>>
regvars == <<callbacks, callbacks_thread, callbacks_lock, read_thread>>
rvars == <<rpc, rrec, nrec, stick_closed>>
dvars == <<dpc, devent, dcb, dmiss, derr>>
cvars == <<cpc, ctarget, ctimeout, cresult, cwarned, cerr, cdone, ncalls>>
hvars == <<parsed, consumed, advisories, evictions, calls>>
vars == <<qvars, flagvars, regvars, rvars, dvars, cvars, hvars>>

\* the value None where an InputEvent may stand
NoEvent == [timestamp |-> 0, direction |-> None, action |-> None]
NoRecord == [type |-> 0, code |-> 0, value |-> 0, tv_sec |-> 0]

\* the state __init__ leaves: the reader thread started, no callbacks,
\* no _rotate attribute
Constructed ==
    /\ max_events \in 1..MaxCapacity
    /\ rotate = <<>>
    /\ rotate_arg = <<>>
    /\ buffer = <<>>
    /\ closing = FALSE
    /\ callbacks_close = FALSE
    /\ callbacks = [d \in Directions |-> None]
    /\ callbacks_thread = 0
    /\ callbacks_lock = None
    /\ read_thread = TRUE
    /\ rpc = "loop"
    /\ rrec = NoRecord
    /\ nrec = 0
    /\ stick_closed = 0
    /\ dpc = [t \in Threads |-> "unborn"]
    /\ devent = [t \in Threads |-> NoEvent]
    /\ dcb = [t \in Threads |-> Unbound]
    /\ dmiss = [t \in Threads |-> FALSE]
    /\ derr = [t \in Threads |-> None]
    /\ cpc = [c \in Callers |-> "idle"]
    /\ ctarget = [c \in Callers |-> 0]
    /\ ctimeout = [c \in Callers |-> None]
    /\ cresult = [c \in Callers |-> NoEvent]
    /\ cwarned = [c \in Callers |-> FALSE]
    /\ cerr = [c \in Callers |-> None]
    /\ cdone = [c \in Callers |-> None]
    /\ ncalls = 0
    /\ parsed = <<>>
    /\ consumed = <<>>
    /\ advisories = 0
    /\ evictions = 0
    /\ calls = <<>>

Init == Constructed /\ device = DeviceRecords

(* ======================= the reader thread ======================= *)

\* while not self._closing.wait(0): the flag is set, the loop ends and the
\* finally clause closes the file
read_stick_exit ==
    /\ rpc = "loop"
    /\ closing
    /\ rpc' = "done"
    /\ stick_closed' = stick_closed + 1
    /\ UNCHANGED <<rrec, nrec, qvars, flagvars, regvars, dvars, cvars, hvars>>

\* mutant: the file is closed after the loop, not in a finally clause
read_stick_short_noclose ==
    /\ rpc = "loop"
    /\ ~closing
    /\ nrec < MaxRecords
    /\ nrec' = nrec + 1
    /\ rpc' = "dead"
    /\ UNCHANGED <<rrec, stick_closed, qvars, flagvars, regvars, dvars, cvars,
                   hvars>>

\* select() reports the file readable and read() returns fewer bytes than
\* EVENT_SIZE: struct.unpack raises struct.error, the finally clause runs
read_stick_short ==
    /\ rpc = "loop"
    /\ ~closing
    /\ nrec < MaxRecords
    /\ nrec' = nrec + 1
    /\ rpc' = "dead"
    /\ stick_closed' = stick_closed + 1
    /\ UNCHANGED <<rrec, qvars, flagvars, regvars, dvars, cvars, hvars>>

\* a whole record is read and unpacked; a record that is not EV_KEY is
\* dropped; for an EV_KEY record self._buffer.full() is asked, and a full
\* buffer is warned about before the get()
read_stick_record ==
    /\ rpc = "loop"
    /\ ~closing
    /\ nrec < MaxRecords
    /\ \E r \in device :
        LET rec == [type |-> r.type, code |-> r.code, value |-> r.value,
                    tv_sec |-> nrec + 1]
        IN  /\ nrec' = nrec + 1
            /\ rrec' = rec
            /\ IF rec.type # EV_KEY
               THEN /\ rpc' = "loop"
                    /\ UNCHANGED advisories
               ELSE /\ IF Full(buffer, max_events)
                       THEN /\ advisories' = advisories + 1
                            /\ rpc' = "get"
                       ELSE /\ advisories' = advisories
                            /\ rpc' = "put"
    /\ UNCHANGED <<stick_closed, qvars, flagvars, regvars, dvars, cvars,
                   parsed, consumed, evictions, calls>>

\* self._buffer.get() of the overflow branch: no timeout, it waits for an item
read_stick_get ==
    /\ rpc = "get"
    /\ CanGet(buffer)
    /\ buffer' = QueueGet(buffer)
    /\ evictions' = evictions + 1
    /\ rpc' = "put"
    /\ UNCHANGED <<objvars, rrec, nrec, stick_closed, flagvars, regvars,
                   dvars, cvars, parsed, consumed, advisories, calls>>

\* the InputEvent is built (a code or value missing from the dict literals
\* raises KeyError and ends the thread through the finally clause), then
\* self._buffer.put() waits until the queue is not full
read_stick_put ==
    /\ rpc = "put"
    /\ IF ~Mapped(rrec)
       THEN /\ rpc' = "dead"
            /\ stick_closed' = stick_closed + 1
            /\ UNCHANGED <<buffer, parsed>>
       ELSE /\ CanPut(buffer, max_events)
            /\ buffer' = QueuePut(buffer, MakeEvent(rrec))
            /\ parsed' = Append(parsed, MakeEvent(rrec))
            /\ rpc' = "loop"
            /\ UNCHANGED stick_closed
    /\ UNCHANGED <<objvars, rrec, nrec, flagvars, regvars, dvars, cvars,
                   consumed, advisories, evictions, calls>>

ReaderTerminated == rpc \in {"done", "dead"}


(* ======================= the dispatch thread ======================= *)

Alive(t) ==
    dpc[t] \in {"loop", "get", "lock", "call",
                "handler", "handler_acquire", "handler_start_stop"}
Terminated(t) == dpc[t] = "done"
LiveThreads == {t \in Threads : Alive(t)}

\* _callbacks is non-empty (a dict is truthy when it has a key)
Registered == {d \in Directions : callbacks[d] # None}

\* while not self._callbacks_close.wait(0) and not self._closing.wait(0)
KeepRunning == ~callbacks_close /\ ~closing

run_callbacks_loop(t) ==
    /\ dpc[t] = "loop"
    /\ dpc' = [dpc EXCEPT ![t] = IF KeepRunning THEN "get" ELSE "done"]
    /\ UNCHANGED <<devent, dcb, dmiss, derr, qvars, flagvars, regvars, rvars,
                   cvars, hvars>>

\* event = self._buffer.get(timeout=0.1): an item, or queue.Empty raised
\* when the queue is still empty after the timeout; nothing catches it, so
\* it ends the thread
run_callbacks_get(t) ==
    /\ dpc[t] = "get"
    /\ IF CanGet(buffer)
       THEN /\ devent' = [devent EXCEPT ![t] = QueueFront(buffer)]
            /\ buffer' = QueueGet(buffer)
            /\ consumed' = Append(consumed, [by |-> t, event |-> QueueFront(buffer)])
            /\ dpc' = [dpc EXCEPT ![t] = "lock"]
            /\ UNCHANGED derr
       ELSE /\ dpc' = [dpc EXCEPT ![t] = "done"]
            /\ derr' = [derr EXCEPT ![t] = "Empty"]
            /\ UNCHANGED <<devent, buffer, consumed>>
    /\ UNCHANGED <<objvars, dcb, dmiss, flagvars, regvars, rvars, cvars,
                   parsed, advisories, evictions, calls>>

\* cb = self._callbacks[event.direction]; except KeyError: pass
\* a miss leaves the local cb as it was
Lookup(cb, direction) ==
    IF callbacks[direction] # None THEN callbacks[direction] ELSE cb

\* if event is not None: with self._callbacks_lock: the lookup
run_callbacks_lookup(t) ==
    /\ dpc[t] = "lock"
    /\ callbacks_lock = None
    /\ dcb' = [dcb EXCEPT ![t] = Lookup(dcb[t], devent[t].direction)]
    /\ dmiss' = [dmiss EXCEPT ![t] = callbacks[devent[t].direction] = None]
    /\ dpc' = [dpc EXCEPT ![t] = "call"]
    /\ UNCHANGED <<devent, derr, qvars, flagvars, regvars, rvars, cvars, hvars>>

\* cb(event), outside the lock: an unbound cb raises UnboundLocalError,
\* which ends the thread; a plain handler returns, a re-entrant handler
\* goes on to run its body in this thread
run_callbacks_call(t) ==
    /\ dpc[t] = "call"
    /\ IF dcb[t] = Unbound
       THEN /\ dpc' = [dpc EXCEPT ![t] = "done"]
            /\ derr' = [derr EXCEPT ![t] = "UnboundLocalError"]
            /\ UNCHANGED calls
       ELSE /\ calls' = Append(calls, [cb |-> dcb[t], event |-> devent[t],
                                       miss |-> dmiss[t]])
            /\ dpc' = [dpc EXCEPT ![t] =
                         IF dcb[t] \in ReentrantHandlers THEN "handler"
                         ELSE "loop"]
            /\ UNCHANGED derr
    /\ UNCHANGED <<devent, dcb, dmiss, qvars, flagvars, regvars, rvars, cvars,
                   parsed, consumed, advisories, evictions>>

(* ======================= the callers of the API ======================= *)

\* a caller begins a call: what its previous call returned is forgotten
BeginCall(c) ==
    /\ ncalls < MaxCalls
    /\ ncalls' = ncalls + 1
    /\ cresult' = [cresult EXCEPT ![c] = NoEvent]
    /\ cwarned' = [cwarned EXCEPT ![c] = FALSE]
    /\ cerr' = [cerr EXCEPT ![c] = None]
    /\ cdone' = [cdone EXCEPT ![c] = None]

\* a call returns (err = None) or raises err
Return(c, call, err) ==
    /\ cpc' = [cpc EXCEPT ![c] = "idle"]
    /\ cdone' = [cdone EXCEPT ![c] = call]
    /\ cerr' = [cerr EXCEPT ![c] = err]

retvars == <<cresult, cwarned, cerr, cdone>>

(* ======================= the when_* setters ======================= *)

\* with self._callbacks_lock: self._callbacks[d] = value, or pop(d, None)
\* when value is falsy
SetCallback(d, v) ==
    IF v # None THEN [callbacks EXCEPT ![d] = v] ELSE [callbacks EXCEPT ![d] = None]

\* mutant: the lock is not honoured
LockFree_Ignored == TRUE
LockFree == callbacks_lock = None

when_set(c, d, v) ==
    /\ cpc[c] = "idle"
    /\ LockFree
    /\ BeginCall(c)
    /\ callbacks' = SetCallback(d, v)
    /\ cpc' = [cpc EXCEPT ![c] = "start_stop"]
    /\ UNCHANGED <<callbacks_thread, callbacks_lock, read_thread, ctarget,
                   ctimeout, qvars, flagvars, rvars, dvars, hvars>>

\* if self._callbacks and not self._callbacks_thread
ShouldStart == Registered # {} /\ callbacks_thread = 0
\* elif not self._callbacks and self._callbacks_thread
ShouldStop == Registered = {} /\ callbacks_thread # 0

Unborn == {t \in Threads : dpc[t] = "unborn"}

\* _start_stop_callbacks: with self._callbacks_lock
start_stop_acquire(c) ==
    /\ cpc[c] = "start_stop"
    /\ LockFree
    /\ callbacks_lock' = c
    /\ cpc' = [cpc EXCEPT ![c] = "start_stop_test"]
    /\ UNCHANGED <<callbacks, callbacks_thread, read_thread, ctarget, ctimeout,
                   retvars, ncalls, qvars, flagvars, rvars, dvars, hvars>>

\* the if / elif of _start_stop_callbacks, taken with the lock held; when
\* neither holds the with block ends and the setter returns
start_stop_test(c) ==
    /\ cpc[c] = "start_stop_test"
    /\ IF ShouldStart
       THEN /\ cpc' = [cpc EXCEPT ![c] = "start_stop_start"]
            /\ UNCHANGED <<callbacks_lock, cdone, cerr>>
       ELSE IF ShouldStop
       THEN /\ cpc' = [cpc EXCEPT ![c] = "start_stop_stop"]
            /\ UNCHANGED <<callbacks_lock, cdone, cerr>>
       ELSE /\ callbacks_lock' = None
            /\ Return(c, "when", None)
    /\ UNCHANGED <<callbacks, callbacks_thread, read_thread, ctarget, ctimeout,
                   cresult, cwarned, ncalls, qvars, flagvars, rvars, dvars, hvars>>

\* self._callbacks_close.clear(); self._callbacks_thread = Thread(...);
\* self._callbacks_thread.start(); the with block ends
start_stop_start(c) ==
    /\ cpc[c] = "start_stop_start"
    /\ Unborn # {}
    /\ LET t == CHOOSE u \in Unborn : \A w \in Unborn : u <= w
       IN  /\ dpc' = [dpc EXCEPT ![t] = "loop"]
           /\ callbacks_thread' = t
    /\ callbacks_close' = FALSE
    /\ callbacks_lock' = None
    /\ Return(c, "when", None)
    /\ UNCHANGED <<closing, callbacks, read_thread, devent, dcb, dmiss, derr,
                   ctarget, ctimeout, cresult, cwarned, ncalls, qvars, rvars,
                   hvars>>

\* self._callbacks_close.set(), the lock still held
start_stop_stop(c) ==
    /\ cpc[c] = "start_stop_stop"
    /\ callbacks_close' = TRUE
    /\ cpc' = [cpc EXCEPT ![c] = "join_read"]
    /\ UNCHANGED <<closing, regvars, ctarget, ctimeout, retvars, ncalls, qvars,
                   rvars, dvars, hvars>>

\* self._callbacks_thread.join(): the attribute is read (close() may have
\* set it to None since the test: AttributeError, the with releases the lock)
start_stop_join_read(c) ==
    /\ cpc[c] = "join_read"
    /\ IF callbacks_thread = 0
       THEN /\ Return(c, "when", "AttributeError")
            /\ callbacks_lock' = None
            /\ UNCHANGED ctarget
       ELSE /\ ctarget' = [ctarget EXCEPT ![c] = callbacks_thread]
            /\ cpc' = [cpc EXCEPT ![c] = "join_wait"]
            /\ UNCHANGED <<cerr, cdone, callbacks_lock>>
    /\ UNCHANGED <<callbacks, callbacks_thread, read_thread, ctimeout, cresult,
                   cwarned, ncalls, qvars, flagvars, rvars, dvars, hvars>>

\* mutant: the flag is unset again as soon as the thread has been joined
start_stop_join_wait_clears(c) ==
    /\ cpc[c] = "join_wait"
    /\ Terminated(ctarget[c])
    /\ callbacks_thread' = 0
    /\ callbacks_lock' = None
    /\ callbacks_close' = FALSE
    /\ Return(c, "when", None)
    /\ UNCHANGED <<closing, callbacks, read_thread, ctarget, ctimeout, cresult,
                   cwarned, ncalls, qvars, rvars, dvars, hvars>>

\* join() returns when the thread has ended; self._callbacks_thread = None
start_stop_join_wait(c) ==
    /\ cpc[c] = "join_wait"
    /\ Terminated(ctarget[c])
    /\ callbacks_thread' = 0
    /\ callbacks_lock' = None
    /\ Return(c, "when", None)
    /\ UNCHANGED <<callbacks, read_thread, ctarget, ctimeout, cresult, cwarned,
                   ncalls, qvars, flagvars, rvars, dvars, hvars>>

(* ---- a when_up = None assignment made by a handler, that is, in the
        dispatch thread t that called the handler ---- *)

\* the holder of the lock when a dispatch thread has taken it in a handler
HandlerLock == "handler"

\* the setter's with block: self._callbacks.pop('up', None)
handler_set(t) ==
    /\ dpc[t] = "handler"
    /\ LockFree
    /\ callbacks' = SetCallback("up", None)
    /\ dpc' = [dpc EXCEPT ![t] = "handler_acquire"]
    /\ UNCHANGED <<callbacks_thread, callbacks_lock, read_thread, devent, dcb,
                   dmiss, derr, qvars, flagvars, rvars, cvars, hvars>>

\* _start_stop_callbacks: with self._callbacks_lock
handler_acquire(t) ==
    /\ dpc[t] = "handler_acquire"
    /\ LockFree
    /\ callbacks_lock' = HandlerLock
    /\ dpc' = [dpc EXCEPT ![t] = "handler_start_stop"]
    /\ UNCHANGED <<callbacks, callbacks_thread, read_thread, devent, dcb,
                   dmiss, derr, qvars, flagvars, rvars, cvars, hvars>>

\* the if / elif with the lock held.  In the elif, after
\* self._callbacks_close.set(), self._callbacks_thread.join() is a join of
\* the running thread itself when the handle is t: Thread.join raises
\* RuntimeError, the with block releases the lock, and the exception leaves
\* the setter, the handler and _run_callbacks: the thread ends and
\* self._callbacks_thread = None is not reached
handler_start_stop(t) ==
    /\ dpc[t] = "handler_start_stop"
    /\ IF ShouldStart
       THEN /\ Unborn # {}
            /\ LET u == CHOOSE v \in Unborn : \A w \in Unborn : v <= w
               IN  /\ dpc' = [dpc EXCEPT ![u] = "loop", ![t] = "loop"]
                   /\ callbacks_thread' = u
            /\ callbacks_close' = FALSE
            /\ UNCHANGED derr
       ELSE IF ShouldStop
       THEN /\ callbacks_close' = TRUE
            /\ IF callbacks_thread = t
               THEN /\ dpc' = [dpc EXCEPT ![t] = "done"]
                    /\ derr' = [derr EXCEPT ![t] = "RuntimeError"]
                    /\ UNCHANGED callbacks_thread
               ELSE /\ Terminated(callbacks_thread)
                    /\ callbacks_thread' = 0
                    /\ dpc' = [dpc EXCEPT ![t] = "loop"]
                    /\ UNCHANGED derr
       ELSE /\ dpc' = [dpc EXCEPT ![t] = "loop"]
            /\ UNCHANGED <<callbacks_thread, callbacks_close, derr>>
    /\ callbacks_lock' = None
    /\ UNCHANGED <<closing, callbacks, read_thread, devent, dcb, dmiss, qvars,
                   rvars, cvars, hvars>>

(* ======================= read() ======================= *)

\* if self._callbacks_thread is not None: warnings.warn(SenseStickCallbackRead)
ReadWarns == callbacks_thread # 0

read_begin(c, timeout) ==
    /\ cpc[c] = "idle"
    /\ BeginCall(c) /\ cwarned' = [cwarned EXCEPT ![c] = ReadWarns]
    /\ ctimeout' = [ctimeout EXCEPT ![c] = timeout]
    /\ cpc' = [cpc EXCEPT ![c] = "read_get"]
    /\ UNCHANGED <<ctarget, qvars, flagvars, regvars, rvars, dvars, hvars>>

\* mutant: queue.Empty is not caught
read_get_uncaught(c) ==
    /\ cpc[c] = "read_get"
    /\ IF CanGet(buffer)
       THEN /\ cresult' = [cresult EXCEPT ![c] = QueueFront(buffer)]
            /\ buffer' = QueueGet(buffer)
            /\ consumed' = Append(consumed, [by |-> c, event |-> QueueFront(buffer)])
            /\ Return(c, "read", None)
       ELSE /\ ctimeout[c] # None
            /\ Return(c, "read", "Empty")
            /\ UNCHANGED <<cresult, buffer, consumed>>
    /\ ctimeout' = [ctimeout EXCEPT ![c] = None]
    /\ UNCHANGED <<objvars, ctarget, cwarned, ncalls, flagvars, regvars,
                   rvars, dvars, parsed, advisories, evictions, calls>>

\* return self._buffer.get(timeout=timeout); except Empty: return None
\* without a timeout the get() waits for an item
read_get(c) ==
    /\ cpc[c] = "read_get"
    /\ IF CanGet(buffer)
       THEN /\ cresult' = [cresult EXCEPT ![c] = QueueFront(buffer)]
            /\ buffer' = QueueGet(buffer)
            /\ consumed' = Append(consumed, [by |-> c, event |-> QueueFront(buffer)])
       ELSE /\ ctimeout[c] # None
            /\ cresult' = [cresult EXCEPT ![c] = NoEvent]
            /\ UNCHANGED <<buffer, consumed>>
    /\ Return(c, "read", None)
    /\ ctimeout' = [ctimeout EXCEPT ![c] = None]
    /\ UNCHANGED <<objvars, ctarget, cwarned, ncalls, flagvars, regvars,
                   rvars, dvars, parsed, advisories, evictions, calls>>

(* ======================= close() ======================= *)

\* if self._read_thread: self._closing.set(); otherwise nothing is done
close_begin(c) ==
    /\ cpc[c] = "idle"
    /\ ncalls < MaxCalls
    /\ ncalls' = ncalls + 1
    /\ cresult' = [cresult EXCEPT ![c] = NoEvent]
    /\ cwarned' = [cwarned EXCEPT ![c] = FALSE]
    /\ cerr' = [cerr EXCEPT ![c] = None]
    /\ IF read_thread
       THEN /\ closing' = TRUE
            /\ cpc' = [cpc EXCEPT ![c] = "close_reader_read"]
            /\ cdone' = [cdone EXCEPT ![c] = None]
       ELSE /\ cdone' = [cdone EXCEPT ![c] = "close_noop"]
            /\ UNCHANGED <<closing, cpc>>
    /\ UNCHANGED <<callbacks_close, ctarget, ctimeout, qvars, regvars, rvars,
                   dvars, hvars>>

\* self._read_thread.join(): the attribute is read (None after another
\* close() has finished: AttributeError)
close_reader_read(c) ==
    /\ cpc[c] = "close_reader_read"
    /\ IF read_thread
       THEN /\ cpc' = [cpc EXCEPT ![c] = "close_reader_wait"]
            /\ UNCHANGED <<cerr, cdone>>
       ELSE Return(c, "close", "AttributeError")
    /\ UNCHANGED <<ctarget, ctimeout, cresult, cwarned, ncalls, qvars,
                   flagvars, regvars, rvars, dvars, hvars>>

\* join() returns when the reader thread has ended;
\* then if self._callbacks_thread:
close_reader_wait(c) ==
    /\ cpc[c] = "close_reader_wait"
    /\ ReaderTerminated
    /\ cpc' = [cpc EXCEPT ![c] =
                 IF callbacks_thread # 0 THEN "close_callbacks_read"
                 ELSE "close_clear"]
    /\ UNCHANGED <<ctarget, ctimeout, retvars, ncalls, qvars, flagvars,
                   regvars, rvars, dvars, hvars>>

\* self._callbacks_thread.join(): the attribute is read again (None when a
\* setter has stopped the thread since the test: AttributeError)
close_callbacks_read(c) ==
    /\ cpc[c] = "close_callbacks_read"
    /\ IF callbacks_thread = 0
       THEN /\ Return(c, "close", "AttributeError")
            /\ UNCHANGED ctarget
       ELSE /\ ctarget' = [ctarget EXCEPT ![c] = callbacks_thread]
            /\ cpc' = [cpc EXCEPT ![c] = "close_callbacks_wait"]
            /\ UNCHANGED <<cerr, cdone>>
    /\ UNCHANGED <<ctimeout, cresult, cwarned, ncalls, qvars, flagvars,
                   regvars, rvars, dvars, hvars>>

close_callbacks_wait(c) ==
    /\ cpc[c] = "close_callbacks_wait"
    /\ Terminated(ctarget[c])
    /\ cpc' = [cpc EXCEPT ![c] = "close_clear"]
    /\ UNCHANGED <<ctarget, ctimeout, retvars, ncalls, qvars, flagvars,
                   regvars, rvars, dvars, hvars>>

\* self._read_thread = None; self._callbacks_thread = None
close_clear(c) ==
    /\ cpc[c] = "close_clear"
    /\ read_thread' = FALSE
    /\ callbacks_thread' = 0
    /\ Return(c, "close", None)
    /\ UNCHANGED <<callbacks, callbacks_lock, ctarget, ctimeout, cresult,
                   cwarned, ncalls, qvars, flagvars, rvars, dvars, hvars>>

(* ======================= rotate ======================= *)

\* the values the callers of the model assign to rotate
RotateValues == {-90, -10, 0, 45, 90, 91, 180, 270, 360, 450}

\* if value % 90: raise ValueError (Python's % takes the divisor's sign)
RotateRejects(value) == value % 90 # 0
\* mutant: the value is stored as given
Normalize_NoWrap(value) == value
\* value % 360
Normalize(value) == value % 360

\* _set_rotate: the rotate property's setter, a single call
set_rotate(c, value) ==
    /\ cpc[c] = "idle"
    /\ ncalls < MaxCalls
    /\ ncalls' = ncalls + 1
    /\ cresult' = [cresult EXCEPT ![c] = NoEvent]
    /\ cwarned' = [cwarned EXCEPT ![c] = FALSE]
    /\ cdone' = [cdone EXCEPT ![c] = "rotate"]
    /\ rotate_arg' = <<value>>
    /\ IF RotateRejects(value)
       THEN /\ cerr' = [cerr EXCEPT ![c] = "ValueError"]
            /\ UNCHANGED rotate
       ELSE /\ cerr' = [cerr EXCEPT ![c] = None]
            /\ rotate' = <<Normalize(value)>>
    /\ UNCHANGED <<max_events, device, buffer, cpc, ctarget, ctimeout,
                   flagvars, regvars, rvars, dvars, hvars>>

(* ======================= the specifications ======================= *)

\* the reader's steps while _closing is unset
ReaderOpen ==
    \/ read_stick_short
    \/ read_stick_record
    \/ read_stick_get
    \/ read_stick_put

Reader ==
    \/ read_stick_exit
    \/ ReaderOpen

Dispatcher ==
    \E t \in Threads :
        \/ run_callbacks_loop(t)
        \/ run_callbacks_get(t)
        \/ run_callbacks_lookup(t)
        \/ run_callbacks_call(t)

Setter(c) ==
    \/ \E d \in SetterDirections, v \in Handlers \cup {None} : when_set(c, d, v)
    \/ start_stop_acquire(c)
    \/ start_stop_test(c)
    \/ start_stop_start(c)
    \/ start_stop_stop(c)
    \/ start_stop_join_read(c)
    \/ start_stop_join_wait(c)

Read(c) ==
    \/ \E timeout \in {None, "finite"} : read_begin(c, timeout)
    \/ read_get(c)

Close(c) ==
    \/ close_begin(c)
    \/ close_reader_read(c)
    \/ close_reader_wait(c)
    \/ close_callbacks_read(c)
    \/ close_callbacks_wait(c)
    \/ close_clear(c)

\* the two background threads and one thread calling the whole API
Next ==
    \/ Reader
    \/ Dispatcher
    \/ Setter(MainCaller)
    \/ Read(MainCaller)
    \/ Close(MainCaller)

Spec == Init /\ [][Next]_vars

\* the two background threads and the callers assigning when_* concurrently
NextSetters ==
    \/ ReaderOpen
    \/ Dispatcher
    \/ \E c \in Callers : Setter(c)

\* the queue's capacity plays no part in the threads' lifecycle: one value
InitSetters == Init /\ max_events = MaxCapacity

SpecSetters == InitSetters /\ [][NextSetters]_vars

\* the reader and one caller assigning rotate
NextRotate ==
    \/ ReaderOpen
    \/ \E value \in RotateValues : set_rotate(MainCaller, value)

SpecRotate == Init /\ [][NextRotate]_vars

\* the body of a re-entrant handler, run by the dispatch thread
HandlerBody ==
    \E t \in Threads :
        \/ handler_set(t)
        \/ handler_acquire(t)
        \/ handler_start_stop(t)

\* a caller that assigns the re-entrant handler, or None
SetterReentrant(c) ==
    \/ \E d \in SetterDirections, v \in ReentrantHandlers \cup {None} :
           when_set(c, d, v)
    \/ start_stop_acquire(c)
    \/ start_stop_test(c)
    \/ start_stop_start(c)
    \/ start_stop_stop(c)
    \/ start_stop_join_read(c)
    \/ start_stop_join_wait(c)

NextReentrant ==
    \/ ReaderOpen
    \/ Dispatcher
    \/ HandlerBody
    \/ SetterReentrant(MainCaller)

SpecReentrant == InitSetters /\ [][NextReentrant]_vars

\* the reader alone, on a device that delivers every mapped key record
InitParse == Constructed /\ device = AllRecords

SpecParse == InitParse /\ [][ReaderOpen]_vars

(* ======================= the claims ======================= *)

\* the last n elements of s
Suffix(s, n) == SubSeq(s, Len(s) - n + 1, Len(s))
\* the place of event e in the reader's output
Pos(e) == CHOOSE k \in 1..Len(parsed) : parsed[k] = e
\* no API call is in progress
Quiescent == \A c \in Callers : cpc[c] = "idle"
\* the overflow get() waits on an empty queue; the reader is the queue's
\* only producer, so nothing ever ends the wait
ReaderStuck == rpc = "get" /\ ~CanGet(buffer)

(* C1: whenever no API call is in progress, at most one dispatch thread is
   alive, and one is alive if and only if the callback registry is
   non-empty.  The code breaks it: the dispatch thread dies of queue.Empty
   at its first idle timeout while handlers stay registered. *)
C1_OneThreadIffRegistered ==
    Quiescent =>
        /\ Cardinality(LiveThreads) <= 1
        /\ (LiveThreads # {} <=> Registered # {})

(* C2: with two callers assigning and clearing when_* handlers
   concurrently, in any interleaving, two dispatch threads are never alive
   at the same time. *)
C2_NeverTwoDispatchThreads == Cardinality(LiveThreads) <= 1

\* both callers have returned from a setter, the first dispatch thread has
\* been stopped and a second one runs
C2_Witness ==
    /\ \A c \in Callers : cdone[c] = "when"
    /\ Terminated(1)
    /\ Alive(2)

(* C3: an event whose direction has no registered handler at lookup time
   is dropped: no handler is invoked for it and no error ends the dispatch
   thread.  The code breaks it: the miss leaves cb unbound
   (UnboundLocalError) or holding the handler of an earlier event, which
   is then called with this event. *)
C3_MissIsDropped ==
    /\ \A i \in 1..Len(calls) : ~calls[i].miss
    /\ \A t \in Threads : derr[t] # "UnboundLocalError"

(* C4: for max_events >= 1 the buffer never holds more than max_events
   events; every element that leaves the buffer is its oldest (the buffer
   is always the tail end of what the reader has put), and each push that
   found the buffer full removes exactly one element before it inserts. *)
C4_BoundedEvictsOldest ==
    /\ Len(buffer) <= max_events
    /\ Len(buffer) <= Len(parsed)
    /\ buffer = Suffix(parsed, Len(buffer))
    /\ evictions = advisories - (IF rpc = "get" THEN 1 ELSE 0)
    /\ rpc \in {"loop", "done"} =>
           Len(parsed) = Len(consumed) + evictions + Len(buffer)

\* a push that found the buffer full has evicted and inserted
C4_Witness ==
    /\ evictions >= 1
    /\ rpc = "loop"
    /\ Len(buffer) = max_events

(* C5: after the reader has put N events with no consumer having popped
   any, N > max_events, the buffer holds exactly the last max_events of
   them in their order and exactly N - max_events buffer-full advisories
   have been emitted. *)
C5_KeepsMostRecent ==
    (consumed = <<>> /\ rpc \in {"loop", "done"} /\ Len(parsed) > max_events) =>
        /\ buffer = Suffix(parsed, max_events)
        /\ advisories = Len(parsed) - max_events

\* two events more than the capacity have been put, nothing consumed
C5_Witness ==
    /\ consumed = <<>>
    /\ rpc = "loop"
    /\ Len(parsed) = max_events + 2

(* C6: consumers receive events in the order the reader parsed them: the
   events popped are in strictly increasing place of the reader's output,
   and as long as nothing has been evicted they are exactly its first
   events. *)
C6_DeliveredInOrder ==
    /\ \A i \in 1..Len(consumed) :
           \E k \in 1..Len(parsed) : parsed[k] = consumed[i].event
    /\ \A i, j \in 1..Len(consumed) :
           i < j => Pos(consumed[i].event) < Pos(consumed[j].event)
    /\ evictions = 0 =>
           \A i \in 1..Len(consumed) : consumed[i].event = parsed[i]

\* read() has delivered two events, and an eviction happened in between
C6_Witness ==
    /\ Len(consumed) >= 2
    /\ \A i \in 1..Len(consumed) : consumed[i].by = MainCaller
    /\ evictions >= 1

(* C7: the reader never waits on the queue while pushing an event.  The
   code breaks it: once consumers empty the queue between the reader's
   full() and its get(), the get() waits for an item nobody will put. *)
C7_PushNeverBlocks ==
    /\ ~ReaderStuck
    /\ ~(rpc = "put" /\ Mapped(rrec) /\ ~CanPut(buffer, max_events))

(* C8: close() returns: a caller inside close() never waits for a reader
   thread that cannot end.  The code breaks it through C7: the reader
   stuck in its overflow get() never sees _closing, so join() never
   returns. *)
C8_CloseReturns ==
    \A c \in Callers : cpc[c] = "close_reader_wait" => ~ReaderStuck

(* C9: a read() call emits the contention advisory if and only if some
   direction has a registered handler when the call is made.  The code
   breaks it: it tests _callbacks_thread, which close() sets to None
   while the handlers stay registered. *)
C9_ReadWarnsIffRegistered ==
    [][\A c \in Callers :
          (cpc[c] = "idle" /\ cpc'[c] = "read_get") =>
              (cwarned'[c] <=> Registered # {})]_vars

(* C10: a read() with a finite timeout that finds the queue empty returns
   None, raises nothing and leaves the queue as it was; a read() that
   finds the queue non-empty returns its oldest event and removes it. *)
C10_ReadResult ==
    [][\A c \in Callers :
          (cpc[c] = "read_get" /\ cpc'[c] = "idle") =>
              IF buffer = <<>>
              THEN /\ ctimeout[c] # None
                   /\ cresult'[c] = NoEvent
                   /\ cerr'[c] = None
                   /\ buffer' = buffer
              ELSE /\ cresult'[c] = parsed[Len(parsed) - Len(buffer) + 1]
                   /\ cerr'[c] = None
                   /\ buffer' = Suffix(parsed, Len(buffer) - 1)]_vars

\* a read() has timed out on a queue that events had passed through
C10_Witness ==
    \E c \in Callers :
        /\ cdone[c] = "read"
        /\ cresult[c] = NoEvent
        /\ buffer = <<>>
        /\ parsed # <<>>
\* value is a whole multiple of m
MultipleOf(value, m) == \E k \in -8..8 : value = m * k
\* a caller's assignment to rotate returns or raises in this step
RotateCall(c) == ncalls' = ncalls + 1 /\ cdone'[c] = "rotate"

(* C11: every assignment to rotate of a value that is not a multiple of 90
   raises ValueError and leaves the stored value as it was; every
   assignment of a multiple of 90, negative or beyond 360, stores the one
   value among 0, 90, 180, 270 that differs from it by a multiple of 360. *)
C11_RotateSetter ==
    [][\A c \in Callers :
          RotateCall(c) =>
              IF MultipleOf(rotate_arg'[1], 90)
              THEN /\ cerr'[c] = None
                   /\ Len(rotate') = 1
                   /\ rotate'[1] \in {0, 90, 180, 270}
                   /\ MultipleOf(rotate_arg'[1] - rotate'[1], 360)
              ELSE /\ cerr'[c] = "ValueError"
                   /\ rotate' = rotate]_vars

\* -90 has been stored as 270, then 45 was refused
C11_Witness ==
    /\ rotate = <<270>>
    /\ rotate_arg = <<45>>
    /\ cerr[MainCaller] = "ValueError"

\* the four directions of the stick in clockwise order
Ring == <<"up", "right", "down", "left">>
\* direction d on a layout turned by rot (a quarter turn per 90 degrees);
\* "enter" has no direction to turn, and an unset rotate turns nothing
Remap(d, rot) ==
    IF rot = <<>> \/ d = "enter" THEN d
    ELSE LET i == CHOOSE k \in 1..4 : Ring[k] = d
         IN  Ring[((i - 1 + rot[1] \div 90) % 4) + 1]

(* C12: an event the reader puts is labelled with its key's direction
   remapped by the rotate value stored at that moment, and the events
   already buffered stay as they are.  The code breaks it: _read_stick
   never reads _rotate, so a key parsed after rotate = 90 keeps the label
   of the unrotated layout. *)
C12_ParsedWithRotation ==
    [][(rpc = "put" /\ rpc' = "loop") =>
          /\ parsed'[Len(parsed')].direction =
                 Remap(DirectionTable[rrec.code], rotate)
          /\ SubSeq(buffer', 1, Len(buffer)) = buffer]_vars

(* C13 as claimed: each of the two lifecycle flags is monotone: once
   _closing or _callbacks_close is set, no step unsets it. *)
C13_FlagsMonotone ==
    [][/\ closing => closing'
       /\ callbacks_close => callbacks_close']_vars

\* a caller takes the first branch of _start_stop_callbacks in this step:
\* there is no thread handle and a new dispatch thread is started
StartsThread ==
    /\ callbacks_thread = 0
    /\ callbacks_thread' # 0
    /\ Alive(callbacks_thread)'

(* C13 amended: the reader's shutdown flag is monotone (once close() has set
   _closing no step unsets it); the dispatcher's shutdown flag is set by the
   clearing of the last handler and is unset again only by the step of
   _start_stop_callbacks that starts a new dispatch thread, and by no
   other step. *)
C13_FlagsResetOnlyOnStart ==
    [][/\ closing => closing'
       /\ (callbacks_close /\ ~callbacks_close') => StartsThread]_vars

\* thread 1 was stopped by the flag (not by close(), not by an exception)
\* and a later registration has unset the flag and started thread 2
C13_Witness ==
    /\ dpc[1] = "done" /\ derr[1] = None
    /\ ~closing
    /\ ~callbacks_close
    /\ callbacks_thread = 2 /\ Alive(2)

\* the labels the claim's table gives to codes and values
ClaimedDirection(code) ==
    CASE code = 103 -> "up"
      [] code = 105 -> "left"
      [] code = 106 -> "right"
      [] code = 108 -> "down"
      [] code = 28  -> "enter"
ClaimedAction(value) ==
    CASE value = 0 -> "released"
      [] value = 1 -> "pressed"
      [] value = 2 -> "held"
\* the reader has read and unpacked a whole record in this step
ReadsRecord == rpc = "loop" /\ nrec' = nrec + 1 /\ rpc' # "dead"

(* C14: every record of type key with a code in {103, 105, 106, 108, 28}
   and a value in {0, 1, 2} takes the reader to its put, and the put
   enqueues exactly one event, labelled with the table's direction for the
   code and the table's action for the value; a record of any other type
   leaves the queue as it is, enqueues nothing and emits no advisory. *)
C14_ParseTable ==
    [][/\ ReadsRecord =>
            IF rrec'.type = EV_KEY
            THEN rpc' \in {"get", "put"} /\ parsed' = parsed
            ELSE /\ rpc' = "loop"
                 /\ buffer' = buffer
                 /\ parsed' = parsed
                 /\ advisories' = advisories
       /\ (rpc = "get" /\ rpc' # "get") => (rpc' = "put" /\ parsed' = parsed)
       /\ (rpc = "put" /\ rpc' # "put") =>
            /\ rpc' = "loop"
            /\ buffer' = Append(buffer,
                                [timestamp |-> rrec.tv_sec,
                                 direction |-> ClaimedDirection(rrec.code),
                                 action    |-> ClaimedAction(rrec.value)])
            /\ parsed' = Append(parsed, buffer'[Len(buffer')])]_vars

\* key / 108 / 1 has been enqueued as down, pressed; then a record of
\* another type carrying code 106 was read and dropped
C14_Witness ==
    /\ nrec = 2
    /\ rpc = "loop"
    /\ rrec.type # EV_KEY /\ rrec.code = 106
    /\ buffer = <<[timestamp |-> 1, direction |-> "down", action |-> "pressed"]>>
    /\ advisories = 0

(* C15: a dispatch thread whose timed pop expires on an empty queue goes
   back to the head of its loop and tests the shutdown flags again; it does
   not terminate there.  The code breaks it (the cause is the one of C1):
   get(timeout=0.1) raises queue.Empty, nothing catches it, and the thread
   ends with the handler still registered and both flags unset. *)
C15_IdleTimeoutLoops ==
    [][\A t \in Threads :
          (dpc[t] = "get" /\ ~CanGet(buffer) /\ dpc'[t] # "get")
              => (dpc'[t] = "loop" /\ derr'[t] = None)]_vars

(* C16: no reachable state has a setter waiting in join() for the dispatch
   thread while that thread waits for the registry lock the setter holds.
   The code breaks it: _start_stop_callbacks joins inside its with block,
   and the dispatch thread takes the same lock for its lookup. *)
C16_NoJoinUnderLock ==
    \A c \in Callers, t \in Threads :
        ~(/\ cpc[c] = "join_wait"
          /\ ctarget[c] = t
          /\ callbacks_lock = c
          /\ dpc[t] = "lock")

\* thread t is inside a handler that has re-entered the registry API
InHandler(t) == dpc[t] \in {"handler", "handler_acquire", "handler_start_stop"}

(* C17: a handler that clears the handler of 'up' from inside its
   invocation, the last remaining one included, never fails: the re-entrant
   assignment returns to the dispatch loop without an exception, 'up' is
   cleared, and when the registry is left empty the dispatcher's handle is
   cleared with it.  The code breaks it: clearing the last handler makes
   _start_stop_callbacks join the dispatch thread from the dispatch thread
   itself, which raises RuntimeError. *)
C17_ReentrantCallReturns ==
    [][\A t \in Threads :
          (InHandler(t) /\ ~InHandler(t)') =>
              /\ dpc'[t] = "loop"
              /\ derr'[t] = None
              /\ callbacks'["up"] = None
              /\ (Registered' = {} => callbacks_thread' = 0)]_vars

\* the device file has been closed once if the reader has ended, and not
\* at all while it runs
ClosedOnceAtEnd == stick_closed = IF ReaderTerminated THEN 1 ELSE 0

(* C18: however the reader's loop ends (the shutdown flag, a short read, a
   key record with an unmapped code or value) the device file is closed
   exactly once, and it is not closed while the reader runs; once the
   reader has ended it stays ended and no event is enqueued any more: the
   history of enqueued events is fixed and the queue only shrinks. *)
C18_ReaderClosesOnce ==
    [][/\ ClosedOnceAtEnd
       /\ ClosedOnceAtEnd'
       /\ ReaderTerminated =>
            /\ ReaderTerminated'
            /\ parsed' = parsed
            /\ Len(buffer') <= Len(buffer)
            /\ buffer' = Suffix(buffer, Len(buffer'))]_vars

\* the reader was ended by a key record with an unmapped code, and a
\* caller has taken an event out of the queue since
C18_Witness ==
    /\ rpc = "dead"
    /\ rrec.type = EV_KEY /\ ~Mapped(rrec)
    /\ stick_closed = 1
    /\ Len(parsed) = 1 /\ buffer = <<>>
    /\ cresult[MainCaller] = parsed[1]

\* the reader's overflow get() takes an event out of the queue in this step
ReaderEvicts == rpc = "get" /\ rpc' = "put"

(* C19: the reader takes an event out of the queue for overflow only when
   the queue holds max_events events at that moment, and the evictions so
   far then number the buffer-full advisories.  The code breaks it: full()
   and get() are two separate calls, and a read() or the dispatch thread
   may pop in between, so the reader discards an event from a queue that
   has free space. *)
C19_EvictsOnlyWhenFull ==
    [][ReaderEvicts =>
          /\ Len(buffer) = max_events
          /\ evictions' = advisories']_vars

(* C20: a record that does not end in an enqueued event (a record of
   another type, or a key record with an unmapped code or value) emits no
   buffer-full advisory and takes nothing out of the queue, also when the
   queue is at capacity.  The code breaks it: for a key record full() is
   asked, the advisory emitted and the oldest event removed before the dict
   lookups raise KeyError. *)
C20_DroppedRecordNoEffect ==
    [][/\ (ReadsRecord /\ (rrec'.type # EV_KEY \/ ~Mapped(rrec'))) =>
            (advisories' = advisories /\ buffer' = buffer)
       /\ (rpc \in {"get", "put"} /\ ~Mapped(rrec) /\ rpc' # rpc) =>
            (buffer' = buffer /\ evictions' = evictions)]_vars
====
